---------------------------- MODULE Spec2Model ----------------------------
(***************************************************************************)
(* Governance dashboard of mvx-governance-stats.                           *)
(*                                                                         *)
(* Two variants of the React component exist in the repository: the        *)
(* cached one (src/unnamed/part_000, "part_000" below) and the older one   *)
(* (src/multivers_x_governance_dashboard_react.jsx, "jsx" below), plus the *)
(* caching proxy server (src/unnamed/part_001).                            *)
(*                                                                         *)
(* JavaScript values are represented as follows: a string is a TLA+        *)
(* string, undefined is the string Undefined, NaN is the integer NaN (no   *)
(* number the program computes equals it), null is the string null (the   *)
(* sequence Null where an array is expected), a                            *)
(* BigInt is an integer, an array is a sequence, a Map is the sequence of  *)
(* its entries in insertion order (what Map.entries() iterates).           *)
(***************************************************************************)
EXTENDS Integers, Sequences, FiniteSets, TLC

Undefined == "<undefined>"
NaN == 0 - 1000000
Null == <<NaN>>
null == "<null>"

Min(a, b) == IF a < b THEN a ELSE b

\* TRUE, for every value v.  TLC computes an operator's argument when it is
\* first used; a loop tests Evaluated on its state so that each iteration is
\* computed before the next one starts.
Evaluated(v) == v = v

RECURSIVE Power2(_)
Power2(n) == IF n = 0 THEN 1 ELSE 2 * Power2(n - 1)

Pow2Table == [n \in 0..30 |-> Power2(n)]
Pow2(n) == Pow2Table[n]

\* a ^ b bit by bit, on non-negative integers
RECURSIVE BitXorBits(_, _)
BitXorBits(a, b) ==
  IF a = 0 THEN b
  ELSE IF b = 0 THEN a
  ELSE ((a + b) % 2) + 2 * BitXorBits(a \div 2, b \div 2)

Xor5Table == [a \in 0..31 |-> [b \in 0..31 |-> BitXorBits(a, b)]]

\* a ^ b on non-negative integers, five bits at a time
RECURSIVE BitXor(_, _)
BitXor(a, b) ==
  IF a = 0 THEN b
  ELSE IF b = 0 THEN a
  ELSE Xor5Table[a % 32][b % 32] + 32 * BitXor(a \div 32, b \div 32)

\* x >> n on a non-negative integer
ShiftRight(x, n) == x \div Pow2(n)

\* x & (2^n - 1) on a non-negative integer
LowBits(x, n) == x % Pow2(n)

(***************************************************************************)
(* Characters                                                              *)
(***************************************************************************)
HexDigits == <<"0", "1", "2", "3", "4", "5", "6", "7", "8", "9",
               "a", "b", "c", "d", "e", "f">>
UpperHexDigits == <<"0", "1", "2", "3", "4", "5", "6", "7", "8", "9",
                    "A", "B", "C", "D", "E", "F">>

IsHexDigit(c) ==
  \E i \in 1..16 : HexDigits[i] = c \/ UpperHexDigits[i] = c

HexVal(c) ==
  (CHOOSE i \in 1..16 : HexDigits[i] = c \/ UpperHexDigits[i] = c) - 1

IsSpace(c) == c = " "
IsSign(c) == c = "-" \/ c = "+"

CharAt(s, i) == SubSeq(s, i, i)

\* hex.match(/.{1,2}/g): the string cut into chunks of two characters, the
\* last chunk holding one character when the length is odd ([] for "").
RECURSIVE MatchPairs(_)
MatchPairs(s) ==
  IF Len(s) = 0 THEN <<>>
  ELSE IF Len(s) = 1 THEN <<s>>
  ELSE <<SubSeq(s, 1, 2)>> \o MatchPairs(SubSeq(s, 3, Len(s)))

\* parseInt(b, 16) of a chunk of one or two characters: leading white space
\* and one sign are skipped, a 0x prefix is removed, and the longest prefix
\* of hex digits is read; NaN when no digit is read.
parseInt16(b) ==
  LET c1 == CharAt(b, 1)
      c2 == CharAt(b, 2)
  IN IF Len(b) = 1
       THEN IF IsHexDigit(c1) THEN HexVal(c1) ELSE NaN
     ELSE IF IsHexDigit(c1)
       THEN IF IsHexDigit(c2) THEN 16 * HexVal(c1) + HexVal(c2)
            ELSE IF c1 = "0" /\ (c2 = "x" \/ c2 = "X") THEN NaN
            ELSE HexVal(c1)
     ELSE IF IsSpace(c1)
       THEN IF IsHexDigit(c2) THEN HexVal(c2) ELSE NaN
     ELSE IF IsSign(c1)
       THEN IF IsHexDigit(c2)
              THEN IF c1 = "-" THEN 0 - HexVal(c2) ELSE HexVal(c2)
              ELSE NaN
     ELSE NaN

HexBytes(hex) ==
  LET chunks == MatchPairs(hex)
  IN [i \in 1..Len(chunks) |-> parseInt16(chunks[i])]

(***************************************************************************)
(* Utilities                                                               *)
(***************************************************************************)
\* String.fromCharCode(v): ToUint16, so NaN gives code 0 and a negative
\* value wraps around 2^16.
CharCode(v) == IF v = NaN THEN 0 ELSE v % 65536

RECURSIVE StripTrailingNul(_)
StripTrailingNul(codes) ==
  IF Len(codes) > 0 /\ codes[Len(codes)] = 0
    THEN StripTrailingNul(SubSeq(codes, 1, Len(codes) - 1))
    ELSE codes

\* The decoded text as the sequence of its character codes.
hexToAscii(hex) ==
  IF hex = Undefined \/ hex = "" THEN <<>>
  ELSE LET bytes == HexBytes(hex)
       IN StripTrailingNul([i \in 1..Len(bytes) |-> CharCode(bytes[i])])

\* String.prototype.toLowerCase on codes below 256
LowerCode(c) ==
  IF (c >= 65 /\ c <= 90) \/ (c >= 192 /\ c <= 222 /\ c # 215)
    THEN c + 32 ELSE c

toLowerCase(codes) == [i \in 1..Len(codes) |-> LowerCode(codes[i])]

RECURSIVE TrimEnd(_)
TrimEnd(s) ==
  IF Len(s) > 0 /\ IsSpace(CharAt(s, Len(s)))
    THEN TrimEnd(SubSeq(s, 1, Len(s) - 1)) ELSE s

\* Mutation: the digits are read in base 10
RECURSIVE HexValue_Base10(_)
HexValue_Base10(s) ==
  IF Len(s) = 0 THEN 0
  ELSE 10 * HexValue_Base10(SubSeq(s, 1, Len(s) - 1))
         + HexVal(CharAt(s, Len(s)))

RECURSIVE HexValue(_)
HexValue(s) ==
  IF Len(s) = 0 THEN 0
  ELSE 16 * HexValue(SubSeq(s, 1, Len(s) - 1)) + HexVal(CharAt(s, Len(s)))

\* BigInt('0x' + h): white space around the literal is trimmed, then every
\* character after 0x must be a hex digit and there must be at least one;
\* anything else is a SyntaxError, which hexToBigInt turns into 0n.
hexToBigInt(hex) ==
  IF hex = Undefined \/ hex = "" THEN 0
  ELSE LET h == IF Len(hex) % 2 = 1 THEN "0" \o hex ELSE hex
           digits == TrimEnd(h)
       IN IF Len(digits) > 0
             /\ \A i \in 1..Len(digits) : IsHexDigit(CharAt(digits, i))
            THEN HexValue(digits)
            ELSE 0

(***************************************************************************)
(* bech32                                                                  *)
(***************************************************************************)
GENERATORS == <<996825010, 642813549, 513874426, 1027748829, 705979059>>

\* The inner loop: generator i is applied when bit i of b is set.
RECURSIVE ApplyGenerators(_, _, _)
ApplyGenerators(chk, b, i) ==
  IF i = 5 THEN chk
  ELSE IF ShiftRight(b, i) % 2 # 0
    THEN ApplyGenerators(BitXor(chk, GENERATORS[i + 1]), b, i + 1)
    ELSE ApplyGenerators(chk, b, i + 1)

\* One iteration of the outer loop
PolymodStep(chk, v) ==
  LET b == ShiftRight(chk, 25)
  IN ApplyGenerators(BitXor(LowBits(chk, 25) * 32, v), b, 0)

\* The outer loop from values[k] on
RECURSIVE PolymodFrom(_, _, _)
PolymodFrom(chk, values, k) ==
  IF Evaluated(chk) /\ k <= Len(values)
    THEN PolymodFrom(PolymodStep(chk, values[k]), values, k + 1)
    ELSE chk

bech32Polymod(values) == PolymodFrom(1, values, 1)

\* charCodeAt of the characters an hrp is made of here
CharCodeAt(c) ==
  CASE c = "e" -> 101 [] c = "r" -> 114 [] c = "d" -> 100
    [] c = "a" -> 97  [] c = "b" -> 98  [] c = "t" -> 116
    [] OTHER -> 63

bech32HrpExpand(hrp) ==
  [i \in 1..Len(hrp) |-> CharCodeAt(CharAt(hrp, i)) \div 32]
    \o <<0>>
    \o [i \in 1..Len(hrp) |-> CharCodeAt(CharAt(hrp, i)) % 32]

\* Mutation: the polymod is not xor-ed with 1
bech32CreateChecksum_NoXor(hrp, data) ==
  LET values == bech32HrpExpand(hrp) \o data \o <<0, 0, 0, 0, 0, 0>>
      mod == bech32Polymod(values)
  IN [p \in 1..6 |-> ShiftRight(mod, 5 * (6 - p)) % 32]

\* Mutation: the data symbols do not enter the checksum
bech32CreateChecksum_PrefixOnly(hrp, data) ==
  LET values == bech32HrpExpand(hrp) \o <<0, 0, 0, 0, 0, 0>>
      mod == BitXor(bech32Polymod(values), 1)
  IN [p \in 1..6 |-> ShiftRight(mod, 5 * (6 - p)) % 32]

bech32CreateChecksum(hrp, data) ==
  LET values == bech32HrpExpand(hrp) \o data \o <<0, 0, 0, 0, 0, 0>>
      mod == BitXor(bech32Polymod(values), 1)
  IN [p \in 1..6 |-> ShiftRight(mod, 5 * (6 - p)) % 32]

BECH32_ALPHABET == "qpzry9x8gf2tvdw0s3jn54khce6mua7l"

RECURSIVE AppendSymbols(_, _, _)
AppendSymbols(out, combined, k) ==
  IF Evaluated(out) /\ k <= Len(combined)
    THEN AppendSymbols(out \o CharAt(BECH32_ALPHABET, combined[k] + 1),
                       combined, k + 1)
    ELSE out

bech32Encode(hrp, data) ==
  LET combined == data \o bech32CreateChecksum(hrp, data)
  IN AppendSymbols(hrp \o "1", combined, 1)

(***************************************************************************)
(* convertBits.  acc is a 32-bit integer (the bitwise operators of         *)
(* JavaScript work on int32); it is kept as two 16-bit halves hi and lo,   *)
(* so that the width is exact: acc = hi * 2^16 + lo modulo 2^32.           *)
(***************************************************************************)
\* (acc << n) | value, for value below 2^n and n <= 16
AccShiftOr(acc, n, value) ==
  [hi |-> (acc.hi * Pow2(n) + (acc.lo \div Pow2(16 - n))) % 65536,
   lo |-> ((acc.lo * Pow2(n)) % 65536) + value]

\* The 31 low bits of acc
Low31(acc) == (acc.hi % 32768) * 65536 + acc.lo

\* (acc >> n) & maxv, for n + to <= 31
AccShiftRightMask(acc, n, to) == ShiftRight(Low31(acc), n) % Pow2(to)

\* (acc << n) & maxv, for n <= to
AccShiftLeftMask(acc, n, to) == ((acc.lo % Pow2(to)) * Pow2(n)) % Pow2(to)

\* The while loop of convertBits: emits the groups that are complete.
RECURSIVE EmitGroups(_, _, _, _)
EmitGroups(acc, bits, to, ret) ==
  IF Evaluated(ret) /\ bits >= to
    THEN EmitGroups(acc, bits - to, to,
                    Append(ret, AccShiftRightMask(acc, bits - to, to)))
    ELSE [bits |-> bits, ret |-> ret]

\* The for loop of convertBits.  A NaN value passes the range test (both
\* comparisons are false on NaN) and is or-ed in as 0.
RECURSIVE ConvertFrom(_, _, _, _, _, _, _)
ConvertFrom(data, k, acc, bits, ret, from, to) ==
  IF Evaluated(<<acc, ret>>) /\ k > Len(data)
    THEN [failed |-> FALSE, acc |-> acc, bits |-> bits, ret |-> ret]
  ELSE LET value == data[k]
       IN IF value # NaN /\ (value < 0 \/ ShiftRight(value, from) # 0)
            THEN [failed |-> TRUE, acc |-> acc, bits |-> bits, ret |-> ret]
          ELSE LET v == IF value = NaN THEN 0 ELSE value
                   acc2 == AccShiftOr(acc, from, v)
                   e == EmitGroups(acc2, bits + from, to, ret)
               IN ConvertFrom(data, k + 1, acc2, e.bits, e.ret, from, to)

convertBits(data, from, to, pad) ==
  LET r == ConvertFrom(data, 1, [hi |-> 0, lo |-> 0], 0, <<>>, from, to)
      rest == AccShiftLeftMask(r.acc, to - r.bits, to)
  IN IF r.failed THEN Null
     ELSE IF pad
       THEN IF r.bits # 0 THEN Append(r.ret, rest) ELSE r.ret
     ELSE IF r.bits >= from \/ rest # 0 THEN Null
     ELSE r.ret

\* bech32Encode on the null of convertBits throws a TypeError (null.concat),
\* which the catch turns into undefined.
hexToBech32Erd(hex32) ==
  IF hex32 = Undefined \/ hex32 = "" THEN Undefined
  ELSE LET bytes == HexBytes(hex32)
       IN IF Len(bytes) # 32 THEN Undefined
          ELSE LET five == convertBits(bytes, 8, 5, TRUE)
               IN IF five = Null THEN Undefined
                  ELSE bech32Encode("erd", five)

(***************************************************************************)
(* Voting option decoding                                                  *)
(***************************************************************************)
Ascii_yes == <<121, 101, 115>>
Ascii_no == <<110, 111>>
Ascii_abstain == <<97, 98, 115, 116, 97, 105, 110>>
Ascii_veto == <<118, 101, 116, 111>>
Ascii_ncv == <<110, 99, 118>>
Ascii_veto_power == <<118, 101, 116, 111, 95, 112, 111, 119, 101, 114>>

decodeOption(hex) ==
  LET s == toLowerCase(hexToAscii(hex))
  IN IF s = Ascii_yes THEN "yes"
     ELSE IF s = Ascii_no THEN "no"
     ELSE IF s = Ascii_abstain THEN "abstain"
     ELSE IF s = Ascii_veto \/ s = Ascii_ncv \/ s = Ascii_veto_power THEN "veto"
     ELSE "unknown"

(***************************************************************************)
(* Config                                                                  *)
(***************************************************************************)
Variants == {"part_000", "jsx"}

LegacyDelegationSC == "erd1qqqqqqqqqqqqqpgqxwakt2g7u9atsnr03gqcgmhcv38pt7mkd94q6shuwt"
XoxnoSC == "erd1qqqqqqqqqqqqqpgq6uzdzy54wnesfnlaycxwymrn9texlnmyah0ssrfvk6"
HatomSC == "erd1qqqqqqqqqqqqqpgq4gzfcw7kmkjy8zsf04ce6dl0auhtzjx078sslvrf4e"

DELEGATION_LABELS ==
  (LegacyDelegationSC :> "Legacy Delegation")
    @@ (XoxnoSC :> "xoxno")
    @@ (HatomSC :> "hatom")

CACHE_TTL_MS == 60000

\* The number of rows a leaderboard keeps: slice(0, 50)
TopN == 50

(***************************************************************************)
(* Maps.  A JavaScript Map is the sequence of its entries, in insertion    *)
(* order; set() on a key that is present keeps the entry's position.       *)
(***************************************************************************)
MapHas(m, k) == \E i \in 1..Len(m) : m[i].key = k

MapGet(m, k) == m[CHOOSE i \in 1..Len(m) : m[i].key = k].value

\* Mutation: set() adds an entry even when the key is present
MapSet_AlwaysAppend(m, k, v) == Append(m, [key |-> k, value |-> v])

MapSet(m, k, v) ==
  IF MapHas(m, k)
    THEN [i \in 1..Len(m) |-> IF m[i].key = k THEN [key |-> k, value |-> v]
                                               ELSE m[i]]
    ELSE Append(m, [key |-> k, value |-> v])

(***************************************************************************)
(* Aggregations: the body of useMemo(() => {...}, [rawHits])               *)
(***************************************************************************)
Options == <<"yes", "no", "abstain", "veto", "unknown">>
OptionSet == {Options[i] : i \in 1..Len(Options)}

\* The accumulators as they are declared before the loop
EmptyAcc ==
  [byOption |-> [o \in OptionSet |-> [option |-> o, count |-> 0, power |-> 0]],
   perCategoryAddresses |-> [o \in OptionSet |-> <<>>],
   totalPower |-> 0,
   delegationBreakdown |-> <<>>,
   delegationCountBreakdown |-> <<>>]

\* s.address, undefined when the record has none
AddressOf(s) == IF "address" \in DOMAIN s THEN s.address ELSE Undefined

\* const t = s.topics || []
TopicsOf(s) == IF "topics" \in DOMAIN s THEN s.topics ELSE <<>>

\* t[i] of a JavaScript array (indices from 0), undefined past its end
TopicAt(t, i) == IF i < Len(t) THEN t[i + 1] ELSE Undefined

\* Mutation: the test on the topics is missing
Skipped_Never(s) == FALSE

\* if (!t.length) continue
Skipped(s) == Len(TopicsOf(s)) = 0

\* Mutation: totalPower is not updated
AddToCategory_NoTotal(acc, option, votePower) ==
  [acc EXCEPT !.byOption[option].count = @ + 1,
              !.byOption[option].power = @ + votePower]

\* byOption[option].count += 1; byOption[option].power += votePower;
\* totalPower += votePower
AddToCategory(acc, option, votePower) ==
  [acc EXCEPT !.byOption[option].count = @ + 1,
              !.byOption[option].power = @ + votePower,
              !.totalPower = @ + votePower]

\* Mutation: the entry's power grows by the stake
AddToVoter_StakeAsPower(acc, option, voterAddr, userStake, votePower) ==
  LET m == acc.perCategoryAddresses[option]
      prev == IF MapHas(m, voterAddr) THEN MapGet(m, voterAddr)
              ELSE [stake |-> 0, power |-> 0, count |-> 0]
  IN [acc EXCEPT !.perCategoryAddresses[option] =
        MapSet(m, voterAddr, [stake |-> prev.stake + userStake,
                              power |-> prev.power + userStake,
                              count |-> prev.count + 1])]

\* const prev = m.get(voterAddr) ?? {stake: 0n, power: 0n, count: 0};
\* m.set(voterAddr, {...})
AddToVoter(acc, option, voterAddr, userStake, votePower) ==
  LET m == acc.perCategoryAddresses[option]
      prev == IF MapHas(m, voterAddr) THEN MapGet(m, voterAddr)
              ELSE [stake |-> 0, power |-> 0, count |-> 0]
  IN [acc EXCEPT !.perCategoryAddresses[option] =
        MapSet(m, voterAddr, [stake |-> prev.stake + userStake,
                              power |-> prev.power + votePower,
                              count |-> prev.count + 1])]

\* Mutation: an address that is not listed is its own label
LabelOf_NoDefault(s) ==
  LET src == IF AddressOf(s) = Undefined THEN "others" ELSE AddressOf(s)
  IN IF src \in DOMAIN DELEGATION_LABELS THEN DELEGATION_LABELS[src] ELSE src

\* DELEGATION_LABELS[s.address ?? 'others'] ?? 'others'
LabelOf(s) ==
  LET src == IF AddressOf(s) = Undefined THEN "others" ELSE AddressOf(s)
  IN IF src \in DOMAIN DELEGATION_LABELS THEN DELEGATION_LABELS[src]
     ELSE "others"

\* The delegation breakdown of one delegateVote event; the count breakdown
\* exists in part_000 only.
AddToDelegation(acc, label, votePower, v) ==
  LET d == acc.delegationBreakdown
      c == acc.delegationCountBreakdown
  IN [acc EXCEPT
        !.delegationBreakdown =
           MapSet(d, label,
                  (IF MapHas(d, label) THEN MapGet(d, label) ELSE 0) + votePower),
        !.delegationCountBreakdown =
           IF v = "part_000"
             THEN MapSet(c, label,
                         (IF MapHas(c, label) THEN MapGet(c, label) ELSE 0) + 1)
             ELSE c]

\* Mutation: the power of a vote is read from topics[2]
VoteBranch_PowerFromStake(acc, s, v) ==
  LET t == TopicsOf(s)
      option == decodeOption(TopicAt(t, 1))
      voterAddr == AddressOf(s)
      userStake == hexToBigInt(TopicAt(t, 2))
      votePower == hexToBigInt(TopicAt(t, 2))
      totals == AddToCategory(acc, option, votePower)
  IN IF v = "part_000"
       THEN AddToVoter(totals, option, voterAddr, userStake, votePower)
       ELSE totals

\* The branch id === 'vote'.  The .jsx variant keeps no per-address entry
\* for a vote event.
VoteBranch(acc, s, v) ==
  LET t == TopicsOf(s)
      option == decodeOption(TopicAt(t, 1))
      voterAddr == AddressOf(s)
      userStake == hexToBigInt(TopicAt(t, 2))
      votePower == hexToBigInt(TopicAt(t, 3))
      totals == AddToCategory(acc, option, votePower)
  IN IF v = "part_000"
       THEN AddToVoter(totals, option, voterAddr, userStake, votePower)
       ELSE totals

\* hexToBech32Erd(voterHex) ?? voterHex
VoterOfDelegate(s) ==
  LET voterHex == TopicAt(TopicsOf(s), 2)
      decoded == hexToBech32Erd(voterHex)
  IN IF decoded = Undefined THEN voterHex ELSE decoded

\* The branch id === 'delegateVote'
DelegateVoteBranch(acc, s, v) ==
  LET t == TopicsOf(s)
      option == decodeOption(TopicAt(t, 1))
      voterAddr == VoterOfDelegate(s)
      userStake == hexToBigInt(TopicAt(t, 3))
      votePower == hexToBigInt(TopicAt(t, 4))
      totals == AddToCategory(acc, option, votePower)
      voters == AddToVoter(totals, option, voterAddr, userStake, votePower)
  IN AddToDelegation(voters, LabelOf(s), votePower, v)

\* One iteration of for (const hit of rawHits)
ProcessHit(acc, s, v) ==
  IF Skipped(s) THEN acc
  ELSE IF s.identifier = "vote" THEN VoteBranch(acc, s, v)
  ELSE IF s.identifier = "delegateVote" THEN DelegateVoteBranch(acc, s, v)
  ELSE acc

\* Mutation: the differences are taken the other way round
Comparator_Ascending(a, b, v) ==
  IF v = "part_000" THEN a.power - b.power
  ELSE IF a.stake = b.stake THEN a.power - b.power
  ELSE a.stake - b.stake

\* The comparator given to sort: negative when a is to come before b.
\* Number() of a BigInt difference keeps its sign, and is 0 only for 0n.
Comparator(a, b, v) ==
  IF v = "part_000" THEN b.power - a.power
  ELSE IF a.stake = b.stake THEN b.power - a.power
  ELSE b.stake - a.stake

\* Array.prototype.sort is stable: e goes before the first element that the
\* comparator puts strictly after it.
InsertSorted(sorted, e, v) ==
  LET after == {i \in 1..Len(sorted) : Comparator(sorted[i], e, v) > 0}
      pos == IF after = {} THEN Len(sorted) + 1
             ELSE CHOOSE i \in after : \A j \in after : i <= j
  IN SubSeq(sorted, 1, pos - 1) \o <<e>> \o SubSeq(sorted, pos, Len(sorted))

RECURSIVE SortFrom(_, _, _, _)
SortFrom(sorted, rows, k, v) ==
  IF Evaluated(sorted) /\ k <= Len(rows)
    THEN SortFrom(InsertSorted(sorted, rows[k], v), rows, k + 1, v)
    ELSE sorted

\* Array.from(m.entries()).map(...).sort(...).slice(0, 50)
topPerCategory(m, v) ==
  LET rows == [i \in 1..Len(m) |->
                 [address |-> m[i].key, stake |-> m[i].value.stake,
                  power |-> m[i].value.power, count |-> m[i].value.count]]
      sorted == SortFrom(<<>>, rows, 1, v)
  IN SubSeq(sorted, 1, Min(TopN, Len(sorted)))

\* The value useMemo returns (the chart series are left out)
StatsOf(acc, v) ==
  [byOption |-> acc.byOption,
   totalPower |-> acc.totalPower,
   lists |-> [o \in OptionSet |-> topPerCategory(acc.perCategoryAddresses[o], v)]]

\* The whole loop, from the accumulators acc on, over hits[k..]
RECURSIVE FoldFrom(_, _, _, _)
FoldFrom(acc, hits, k, v) ==
  IF Evaluated(acc) /\ k <= Len(hits)
    THEN FoldFrom(ProcessHit(acc, hits[k], v), hits, k + 1, v)
    ELSE acc

(***************************************************************************)
(* Events                                                                  *)
(***************************************************************************)
ZeroAddress == "erd1qqqqqqqqqqqqqqqqqqqqqqqqqqqqqqqqqqqqqqqqqqqqqqqqqqqq6gq4hu"
UnlistedSC == "erd1qqqqqqqqqqqqqqqpqqqqqqqqqqqqqqqqqqqqqqqqqqqqqqqrlllsrujgla"

Zero32 == "0000000000000000000000000000000000000000000000000000000000000000"
VoterLower == "00000000000000000000000000000000000000000000000000000000000000ab"
VoterUpper == "00000000000000000000000000000000000000000000000000000000000000AB"

Hex_yes == "796573"
Hex_YES == "594553"
Hex_no == "6e6f"
Hex_ncv == "6e6376"
Hex_garbage == "67617262616765"

\* vote, option yes, stake 1000, power 2000, cast by the zero address
VoteYes ==
  [identifier |-> "vote", address |-> ZeroAddress,
   topics |-> <<"01", Hex_yes, "03e8", "07d0">>]

\* delegateVote, option no, voter 32 zero bytes, stake 500, power 700,
\* through a listed contract
DelegateNo ==
  [identifier |-> "delegateVote", address |-> LegacyDelegationSC,
   topics |-> <<"01", Hex_no, Zero32, "01f4", "02bc">>]

\* vote with an option that is no option, stake 1, power 1
VoteGarbage ==
  [identifier |-> "vote", address |-> UnlistedSC,
   topics |-> <<"01", Hex_garbage, "01", "01">>]

\* delegateVote, option YES, stake 10, power 20, voter in upper-case hex
DelegateYesUpper ==
  [identifier |-> "delegateVote", address |-> XoxnoSC,
   topics |-> <<"01", Hex_YES, VoterUpper, "0a", "14">>]

\* the same voter in lower-case hex, stake 3, power 5, unlisted contract
DelegateYesLower ==
  [identifier |-> "delegateVote", address |-> UnlistedSC,
   topics |-> <<"01", Hex_yes, VoterLower, "3", "5">>]

\* delegateVote, option yes, voter 32 zero bytes, stake 10, power 20, from a
\* record without address
DelegateYesZero ==
  [identifier |-> "delegateVote",
   topics |-> <<"01", Hex_yes, Zero32, "0a", "14">>]

\* delegateVote, option ncv, a voter topic that is no 32 bytes, power 7
DelegateVetoRaw ==
  [identifier |-> "delegateVote", address |-> HatomSC,
   topics |-> <<"01", Hex_ncv, "abcd", "05", "07">>]

\* an event of another kind
OtherEvent ==
  [identifier |-> "deposit", address |-> LegacyDelegationSC,
   topics |-> <<"01", Hex_yes, Zero32, "0a", "14">>]

\* a vote without topics
VoteNoTopics == [identifier |-> "vote", address |-> ZeroAddress]

\* a delegateVote with an empty topics array
DelegateEmptyTopics ==
  [identifier |-> "delegateVote", address |-> XoxnoSC, topics |-> <<>>]

EventPool ==
  {VoteYes, DelegateNo, VoteGarbage, DelegateYesUpper, DelegateYesLower,
   DelegateYesZero, DelegateVetoRaw, OtherEvent, VoteNoTopics,
   DelegateEmptyTopics}

\* The longest batch the aggregation is explored on
MaxBatch == 2

Batches == UNION {[1..n -> EventPool] : n \in 0..MaxBatch}

(***************************************************************************)
(* Fetching from Elasticsearch                                             *)
(***************************************************************************)
GOVERNANCE_SC == UnlistedSC

buildQuery(from, size) ==
  [from |-> from,
   size |-> size,
   sort |-> <<[field |-> "timestamp", order |-> "asc"]>>,
   query |-> [should |-> {[address |-> GOVERNANCE_SC],
                          [logAddress |-> GOVERNANCE_SC]},
              identifier |-> {"vote", "delegateVote"}]]

DefaultLimit == 10000

\* The URL the component posts to: the local caching API (through the dev
\* proxy of vite.config.js) or the index itself.
UpstreamUrl == "https://index.multiversx.com/events/_search"
ES_URL(r) == IF r = "proxy" THEN "/api/events/_search" ELSE UpstreamUrl

\* url + '|' + JSON.stringify(body)
CacheKey(url, body) == <<url, "|", body>>

\* Mutation: an entry as old as the TTL still answers
CacheFresh_Inclusive(c, key, t, ttlMs) ==
  key \in DOMAIN c /\ (t - c[key].time) <= ttlMs

\* hit && (now - hit.time) < ttlMs
CacheFresh(c, key, t, ttlMs) == key \in DOMAIN c /\ (t - c[key].time) < ttlMs

\* _cache.set(key, {time, data})
CacheSet(c, key, entry) ==
  [k \in DOMAIN c \cup {key} |-> IF k = key THEN entry ELSE c[k]]

\* What the index answers with: two batches, and a body without hits
BatchA == <<VoteYes, DelegateVetoRaw, VoteGarbage>>
BatchB == <<DelegateVetoRaw, OtherEvent>>
Bodies == {[hits |-> [hits |-> BatchA]], [hits |-> [hits |-> BatchB]],
           [took |-> 3]}

\* data?.hits?.hits ?? []
HitsOf(data) ==
  IF "hits" \in DOMAIN data /\ "hits" \in DOMAIN data.hits
    THEN data.hits.hits ELSE <<>>

\* The statuses the index refuses a query with
ErrorStatuses == {503}

\* new Error(`HTTP ${res.status}`).message
HttpMessage(status) == "HTTP " \o ToString(status)

\* The message of the TypeError a failed fetch rejects with
FetchFailedMessage == "Failed to fetch"

(***************************************************************************)
(* Bounds of the exploration                                               *)
(***************************************************************************)
\* Calls of fetchData
MaxFetches == 3
\* Steps of the clock, each of TickMs milliseconds
MaxTicks == 1
TickMs == 60000
\* Values typed into the limit input
LimitInputs == {100, DefaultLimit}

(***************************************************************************)
(* State                                                                   *)
(***************************************************************************)
VARIABLES
  variant,        \* which of the two components runs
  route,          \* "proxy": ES_URL is the local caching API; "direct"
  strictMode,     \* React.StrictMode runs the mount effect twice
  mounted,        \* the mount effect has run
  loading, error, rawHits, limit,                       \* useState
  memoPc,         \* useMemo: "stale", "loop", "done"
  hitIndex,       \* position of the for loop in rawHits (from 1)
  byOption, perCategoryAddresses, totalPower,
  delegationBreakdown, delegationCountBreakdown,        \* its accumulators
  stats,          \* the value useMemo returned last
  _cache,         \* the Map of postJsonCached
  cache,          \* the Map of the caching API server
  now,            \* Date.now()
  inflight,       \* the calls of fetchData that await their response
  fetches,        \* calls of fetchData so far
  lastOutcome,    \* history: how the last finished fetchData ended
  lastDelivered,  \* history: the batch of the last successful fetchData
  call            \* a utility called on its own: function, argument, result

reactVars == <<loading, error, rawHits, limit>>
accVars == <<byOption, perCategoryAddresses, totalPower,
             delegationBreakdown, delegationCountBreakdown>>
memoVars == <<memoPc, hitIndex, accVars, stats>>
netVars == <<_cache, cache, now, inflight, fetches>>
histVars == <<lastOutcome, lastDelivered>>
configVars == <<variant, route, strictMode, call>>
vars == <<configVars, mounted, reactVars, memoVars, netVars, histVars>>

Acc ==
  [byOption |-> byOption,
   perCategoryAddresses |-> perCategoryAddresses,
   totalPower |-> totalPower,
   delegationBreakdown |-> delegationBreakdown,
   delegationCountBreakdown |-> delegationCountBreakdown]

\* No utility is called on its own while the component runs
NoCall == [fn |-> "none"]

SetAcc(a) ==
  /\ byOption' = a.byOption
  /\ perCategoryAddresses' = a.perCategoryAddresses
  /\ totalPower' = a.totalPower
  /\ delegationBreakdown' = a.delegationBreakdown
  /\ delegationCountBreakdown' = a.delegationCountBreakdown

\* State of the component after its first render: rawHits is [], and
\* useMemo has computed the summary of no event.
InitComponent ==
  /\ mounted = FALSE
  /\ loading = FALSE
  /\ error = null
  /\ limit = DefaultLimit
  /\ hitIndex = 1
  /\ byOption = EmptyAcc.byOption
  /\ perCategoryAddresses = EmptyAcc.perCategoryAddresses
  /\ totalPower = EmptyAcc.totalPower
  /\ delegationBreakdown = EmptyAcc.delegationBreakdown
  /\ delegationCountBreakdown = EmptyAcc.delegationCountBreakdown
  /\ _cache = <<>>
  /\ cache = <<>>
  /\ now = 0
  /\ inflight = {}
  /\ fetches = 0
  /\ lastOutcome = "none"
  /\ lastDelivered = <<>>

\* Either component, posting to the index itself
Init ==
  /\ variant \in Variants
  /\ route = "direct"
  /\ strictMode \in BOOLEAN
  /\ call = NoCall
  /\ rawHits = <<>>
  /\ memoPc = "done"
  /\ stats = StatsOf(EmptyAcc, variant)
  /\ InitComponent

\* The component of part_000 in local development, posting to the caching
\* API server through the dev proxy
InitProxy ==
  /\ variant = "part_000"
  /\ route = "proxy"
  /\ strictMode \in BOOLEAN
  /\ call = NoCall
  /\ rawHits = <<>>
  /\ memoPc = "done"
  /\ stats = StatsOf(EmptyAcc, variant)
  /\ InitComponent

(***************************************************************************)
(* useMemo: the aggregation runs when rawHits has changed, and runs to its *)
(* end before any other handler does.                                      *)
(***************************************************************************)
\* The declarations before the loop
BeginStats ==
  /\ memoPc = "stale"
  /\ memoPc' = "loop"
  /\ hitIndex' = 1
  /\ SetAcc(EmptyAcc)
  /\ UNCHANGED <<configVars, mounted, reactVars, stats, netVars, histVars>>

LoopStep ==
  /\ SetAcc(ProcessHit(Acc, rawHits[hitIndex], variant))
  /\ hitIndex' = hitIndex + 1
  /\ UNCHANGED <<configVars, mounted, reactVars, memoPc, stats, netVars,
                 histVars>>

InLoop == memoPc = "loop" /\ hitIndex <= Len(rawHits)

\* if (!t.length) continue, and the events that are neither vote nor
\* delegateVote
SkipHit ==
  /\ InLoop
  /\ \/ Skipped(rawHits[hitIndex])
     \/ rawHits[hitIndex].identifier \notin {"vote", "delegateVote"}
  /\ LoopStep

ProcessVote ==
  /\ InLoop
  /\ ~Skipped(rawHits[hitIndex])
  /\ rawHits[hitIndex].identifier = "vote"
  /\ LoopStep

ProcessDelegateVote ==
  /\ InLoop
  /\ ~Skipped(rawHits[hitIndex])
  /\ rawHits[hitIndex].identifier = "delegateVote"
  /\ LoopStep

\* The return of the useMemo callback
ReturnStats ==
  /\ memoPc = "loop"
  /\ hitIndex > Len(rawHits)
  /\ memoPc' = "done"
  /\ stats' = StatsOf(Acc, variant)
  /\ UNCHANGED <<configVars, mounted, reactVars, hitIndex, accVars, netVars,
                 histVars>>

Memo == BeginStats \/ SkipHit \/ ProcessVote \/ ProcessDelegateVote
          \/ ReturnStats

\* The aggregation alone, on any batch
InitAgg ==
  /\ variant \in Variants
  /\ route = "direct"
  /\ strictMode = FALSE
  /\ call = NoCall
  /\ rawHits \in Batches
  /\ memoPc = "stale"
  /\ stats = StatsOf(EmptyAcc, variant)
  /\ InitComponent

NextAgg == Memo

SpecAgg == InitAgg /\ [][NextAgg]_vars

(***************************************************************************)
(* What the claims speak of, stated on the events themselves               *)
(***************************************************************************)
RECURSIVE Sum(_)
Sum(seq) == IF Len(seq) = 0 THEN 0 ELSE seq[1] + Sum(Tail(seq))

\* The events the loop has passed
Processed == SubSeq(rawHits, 1, hitIndex - 1)

\* The accumulators hold the aggregation of Processed
Aggregating == memoPc \in {"loop", "done"}

HasTopics(s) == "topics" \in DOMAIN s /\ s.topics # <<>>

IsCounted(s) == HasTopics(s) /\ s.identifier \in {"vote", "delegateVote"}

\* Per-voter tracking is on for this kind of event
IsTracked(s, v) ==
  IsCounted(s) /\ (v = "part_000" \/ s.identifier = "delegateVote")

EventOption(s) == decodeOption(TopicAt(s.topics, 1))

EventStake(s) ==
  hexToBigInt(TopicAt(s.topics, IF s.identifier = "vote" THEN 2 ELSE 3))

EventPower(s) ==
  hexToBigInt(TopicAt(s.topics, IF s.identifier = "vote" THEN 3 ELSE 4))

\* The address string the voter of a counted event resolves to
ResolvedVoter(s) ==
  IF ~IsCounted(s) THEN Undefined
  ELSE IF s.identifier = "vote" THEN AddressOf(s)
  ELSE LET hex == TopicAt(s.topics, 2)
           erd == hexToBech32Erd(hex)
       IN IF erd = Undefined THEN hex ELSE erd

\* ResolvedVoter, worked out once for each event of the pool
VoterTable == [s \in EventPool |-> ResolvedVoter(s)]

EventVoter(s) == VoterTable[s]

\* The label an event's emitting address resolves to
EventLabel(s) ==
  IF AddressOf(s) = LegacyDelegationSC THEN "Legacy Delegation"
  ELSE IF AddressOf(s) = XoxnoSC THEN "xoxno"
  ELSE IF AddressOf(s) = HatomSC THEN "hatom"
  ELSE "others"

\* Sum of Val over the events of evs that satisfy Test
SumWhere(evs, Test(_), Val(_)) ==
  Sum([i \in 1..Len(evs) |-> IF Test(evs[i]) THEN Val(evs[i]) ELSE 0])

CountWhere(evs, Test(_)) == SumWhere(evs, Test, LAMBDA s : 1)

MapKeys(m) == {m[i].key : i \in 1..Len(m)}

\* A Map as the set of its entries, whatever their order
MapEntries(m) == {m[i] : i \in 1..Len(m)}

VoterPowerSum(o) ==
  Sum([i \in 1..Len(perCategoryAddresses[o]) |->
         perCategoryAddresses[o][i].value.power])

(***************************************************************************)
(* C1 - C7: the aggregation (SpecAgg)                                      *)
(***************************************************************************)
\* C1: after every prefix of a batch, totalPower is the sum of the power of
\* the five categories.
C1_TotalPowerIsSum ==
  /\ totalPower = Sum([i \in 1..Len(Options) |-> byOption[Options[i]].power])
  /\ stats.totalPower
       = Sum([i \in 1..Len(Options) |-> stats.byOption[Options[i]].power])

\* Two categories hold power and the total is their sum
C1_Witness ==
  /\ memoPc = "done"
  /\ byOption["yes"].power = 2000
  /\ byOption["no"].power = 700
  /\ totalPower = 2700

\* C2: in every category the power of the per-voter entries sums up to the
\* power that the tracked kinds of event put into the category: all of the
\* category's power in part_000, that of the delegateVote events in .jsx.
C2_Closure ==
  Aggregating =>
    \A o \in OptionSet :
      /\ VoterPowerSum(o)
           = SumWhere(Processed,
                      LAMBDA s : IsTracked(s, variant) /\ EventOption(s) = o,
                      EventPower)
      /\ variant = "part_000" => VoterPowerSum(o) = byOption[o].power

\* A category fed by a vote and by a delegateVote: in .jsx the per-voter sum
\* is the delegateVote's power only.
C2_Witness ==
  /\ memoPc = "done"
  /\ rawHits = <<VoteYes, DelegateYesZero>>
  /\ byOption["yes"].power = 2020
  /\ VoterPowerSum("yes") = IF variant = "part_000" THEN 2020 ELSE 20

\* C3: the summary does not depend on the order of the batch: every
\* permutation of rawHits gives the same totals, the same per-voter entries,
\* the same delegation totals and the same leaderboards.
C3_OrderIndependent ==
  memoPc = "done" =>
    \A p \in Permutations(1..Len(rawHits)) :
      LET permuted == [i \in 1..Len(rawHits) |-> rawHits[p[i]]]
          other == FoldFrom(EmptyAcc, permuted, 1, variant)
      IN /\ other.byOption = byOption
         /\ other.totalPower = totalPower
         /\ \A o \in OptionSet :
              MapEntries(other.perCategoryAddresses[o])
                = MapEntries(perCategoryAddresses[o])
         /\ MapEntries(other.delegationBreakdown)
              = MapEntries(delegationBreakdown)
         /\ MapEntries(other.delegationCountBreakdown)
              = MapEntries(delegationCountBreakdown)
         /\ StatsOf(other, variant).lists = stats.lists

\* C4: an event without topics, with an empty topics array, or of another
\* kind than vote and delegateVote leaves every accumulator as it is.
C4_IgnoredEventsChangeNothing ==
  [][(InLoop /\ hitIndex' = hitIndex + 1
        /\ (~HasTopics(rawHits[hitIndex])
              \/ rawHits[hitIndex].identifier \notin {"vote", "delegateVote"}))
       => UNCHANGED accVars]_vars

\* An ignored event has been passed while the accumulators were not empty
C4_Witness ==
  /\ Aggregating
  /\ hitIndex = 3
  /\ IsCounted(rawHits[1])
  /\ ~IsCounted(rawHits[2])
  /\ totalPower > 0

\* C5: the count of a category is the number of vote and delegateVote events
\* with topics whose topics[1] decodes to it, its power the sum of their
\* power (topics[3] of a vote, topics[4] of a delegateVote).
C5_CategoryTotals ==
  Aggregating =>
    \A o \in OptionSet :
      /\ byOption[o].count
           = CountWhere(Processed,
                        LAMBDA s : IsCounted(s) /\ EventOption(s) = o)
      /\ byOption[o].power
           = SumWhere(Processed,
                      LAMBDA s : IsCounted(s) /\ EventOption(s) = o,
                      EventPower)

\* N = 2 votes for yes of power p = 2000
C5_Witness ==
  /\ memoPc = "done"
  /\ rawHits = <<VoteYes, VoteYes>>
  /\ stats.byOption["yes"].count = 2
  /\ stats.byOption["yes"].power = 2 * 2000
  /\ stats.totalPower = 2 * 2000

C7_KeyedByResolvedAddress ==
  Aggregating =>
    \A o \in OptionSet :
      LET m == perCategoryAddresses[o]
          Of(a, s) ==
            IsTracked(s, variant) /\ EventOption(s) = o /\ EventVoter(s) = a
          voters == {EventVoter(Processed[i]) :
                       i \in {j \in 1..Len(Processed) :
                                IsTracked(Processed[j], variant)
                                  /\ EventOption(Processed[j]) = o}}
      IN /\ MapKeys(m) = voters
         /\ Len(m) = Cardinality(voters)
         /\ \A a \in voters :
              /\ MapGet(m, a).stake
                   = SumWhere(Processed, LAMBDA s : Of(a, s), EventStake)
              /\ MapGet(m, a).power
                   = SumWhere(Processed, LAMBDA s : Of(a, s), EventPower)
              /\ MapGet(m, a).count
                   = CountWhere(Processed, LAMBDA s : Of(a, s))

\* The upper-case and the lower-case hex of one voter share one entry
C7_Witness ==
  /\ memoPc = "done"
  /\ rawHits = <<DelegateYesUpper, DelegateYesLower>>
  /\ Len(perCategoryAddresses["yes"]) = 1
  /\ perCategoryAddresses["yes"][1].value
       = [stake |-> 13, power |-> 25, count |-> 2]

(***************************************************************************)
(* fetchData, postJsonCached and the caching API server                    *)
(***************************************************************************)
\* A handler runs only when the aggregation of the last render is done
Idle == memoPc = "done"

NoBody == [none |-> TRUE]

\* The call of fetchData number id, as it awaits its response.  time is the
\* now of postJsonCached, startHits the rawHits the call started from.
NewRequest(id) ==
  [id |-> id, limit |-> limit, time |-> now,
   stage |-> IF route = "proxy" THEN "toServer" ELSE "upstream",
   srvTime |-> 0, status |-> 0, body |-> NoBody, startHits |-> rawHits]

\* Mutation: a request whose URL and body are already awaited is not sent
SendRequest_Coalesced(reqs, r) ==
  IF \E q \in reqs : q.limit = r.limit THEN reqs ELSE reqs \cup {r}

\* await fetch(url, {method: 'POST', ...}): one more request is in flight
SendRequest(reqs, r) == reqs \cup {r}

BrowserKey(size) == CacheKey(ES_URL(route), buildQuery(0, size))
ServerKey(size) == CacheKey(UpstreamUrl, buildQuery(0, size))

\* postJsonCached answers from _cache; the .jsx variant has no cache
BrowserHit(size) ==
  variant = "part_000" /\ CacheFresh(_cache, BrowserKey(size), now, CACHE_TTL_MS)

\* Mutation: the new batch is appended to the one on display
NextRawHits_Merged(old, hits) == old \o hits

\* setRawHits(data?.hits?.hits ?? []): the state after the call
NextRawHits(old, hits) == hits

\* setRawHits, and the render that follows recomputes the summary
SetRawHits(hits) ==
  /\ rawHits' = NextRawHits(rawHits, hits)
  /\ memoPc' = "stale"
  /\ lastDelivered' = hits

\* fetchData from its first line to the await, and to its end when
\* postJsonCached answers from _cache
FetchData ==
  /\ fetches < MaxFetches
  /\ fetches' = fetches + 1
  /\ error' = null
  /\ IF BrowserHit(limit)
       THEN /\ SetRawHits(HitsOf(_cache[BrowserKey(limit)].data))
            /\ loading' = FALSE
            /\ lastOutcome' = "success"
            /\ UNCHANGED inflight
       ELSE /\ loading' = TRUE
            /\ inflight' = SendRequest(inflight, NewRequest(fetches + 1))
            /\ UNCHANGED <<rawHits, memoPc, histVars>>
  /\ UNCHANGED <<configVars, limit, hitIndex, accVars, stats, _cache, cache,
                 now>>

\* useEffect(() => { fetchData() }, []): once, and once more at once under
\* React.StrictMode.  _cache is empty when the page loads, so that every
\* call goes out.
MountEffect ==
  /\ Idle
  /\ ~mounted
  /\ mounted' = TRUE
  /\ fetches' = IF strictMode THEN 2 ELSE 1
  /\ loading' = TRUE
  /\ error' = null
  /\ inflight' = IF strictMode
                   THEN SendRequest(SendRequest(inflight, NewRequest(1)),
                                    NewRequest(2))
                   ELSE SendRequest(inflight, NewRequest(1))
  /\ UNCHANGED <<configVars, rawHits, limit, memoVars, _cache, cache, now,
                 histVars>>

\* <Button onClick={fetchData} disabled={loading}>
ClickRefresh ==
  /\ Idle
  /\ mounted
  /\ ~loading
  /\ FetchData
  /\ UNCHANGED mounted

\* onChange={(e) => setLimit(Number(e.target.value))}
SetLimit(v) ==
  /\ Idle
  /\ mounted
  /\ v # limit
  /\ limit' = v
  /\ UNCHANGED <<configVars, mounted, loading, error, rawHits, memoVars,
                 netVars, histVars>>

\* Time passes
Tick ==
  /\ Idle
  /\ now < MaxTicks * TickMs
  /\ now' = now + TickMs
  /\ UNCHANGED <<configVars, mounted, reactVars, memoVars, _cache, cache,
                 inflight, fetches, histVars>>

Replace(r, q) == (inflight \ {r}) \cup {q}

ServerFrame ==
  UNCHANGED <<configVars, mounted, reactVars, memoVars, _cache, now, fetches,
              histVars>>

\* The server's handler up to the cache test, when the entry is fresh
ServerHit(r) ==
  /\ Idle
  /\ r.stage = "toServer"
  /\ CacheFresh(cache, ServerKey(r.limit), now, CACHE_TTL_MS)
  /\ inflight' = Replace(r, [r EXCEPT !.stage = "toBrowser", !.status = 200,
                                      !.body = cache[ServerKey(r.limit)].body])
  /\ UNCHANGED cache
  /\ ServerFrame

\* The handler up to await fetch(ES_URL, ...)
ServerMiss(r) ==
  /\ Idle
  /\ r.stage = "toServer"
  /\ ~CacheFresh(cache, ServerKey(r.limit), now, CACHE_TTL_MS)
  /\ inflight' = Replace(r, [r EXCEPT !.stage = "serverUpstream",
                                      !.srvTime = now])
  /\ UNCHANGED cache
  /\ ServerFrame

\* upstream.ok: the body is stored under the time of the cache test
ServerUpstreamOk(r, b) ==
  /\ Idle
  /\ r.stage = "serverUpstream"
  /\ cache' = CacheSet(cache, ServerKey(r.limit),
                       [time |-> r.srvTime, body |-> b])
  /\ inflight' = Replace(r, [r EXCEPT !.stage = "toBrowser", !.status = 200,
                                      !.body = b])
  /\ ServerFrame

\* Mutation: the response that is not ok is stored as well
ServerUpstreamNotOk_Stored(r, st) ==
  /\ Idle
  /\ r.stage = "serverUpstream"
  /\ cache' = CacheSet(cache, ServerKey(r.limit),
                       [time |-> r.srvTime, body |-> r.body])
  /\ inflight' = Replace(r, [r EXCEPT !.stage = "toBrowser", !.status = st])
  /\ ServerFrame

\* !upstream.ok: status and text are passed on
ServerUpstreamNotOk(r, st) ==
  /\ Idle
  /\ r.stage = "serverUpstream"
  /\ inflight' = Replace(r, [r EXCEPT !.stage = "toBrowser", !.status = st])
  /\ UNCHANGED cache
  /\ ServerFrame

\* The upstream fetch throws: 500 Internal Server Error
ServerUpstreamThrows(r) ==
  /\ Idle
  /\ r.stage = "serverUpstream"
  /\ inflight' = Replace(r, [r EXCEPT !.stage = "toBrowser", !.status = 500])
  /\ UNCHANGED cache
  /\ ServerFrame

\* res.ok: postJsonCached stores the data under the time of its cache test,
\* fetchData sets rawHits, and loading goes off
ReceiveOk(r, b) ==
  /\ Idle
  /\ \/ r.stage = "upstream"
     \/ r.stage = "toBrowser" /\ r.status = 200 /\ b = r.body
  /\ _cache' = IF variant = "part_000"
                 THEN CacheSet(_cache, BrowserKey(r.limit),
                               [time |-> r.time, data |-> b])
                 ELSE _cache
  /\ SetRawHits(HitsOf(b))
  /\ loading' = FALSE
  /\ inflight' = inflight \ {r}
  /\ lastOutcome' = "success"
  /\ UNCHANGED <<configVars, mounted, error, limit, hitIndex, accVars, stats,
                 cache, now, fetches>>

\* Mutation: the catch block also empties the batch on display
Catch_ClearsBatch(message) ==
  /\ error' = message
  /\ rawHits' = <<>>
  /\ memoPc' = "stale"

\* catch (e) { setError(e.message) }: nothing else is set
Catch(message) ==
  /\ error' = message
  /\ UNCHANGED <<rawHits, memoPc>>

FailureFrame ==
  UNCHANGED <<configVars, mounted, limit, hitIndex, accVars, stats, _cache,
              cache, now, fetches, lastDelivered>>

\* !res.ok: throw new Error(`HTTP ${res.status}`), caught by fetchData
ReceiveNotOk(r, st) ==
  /\ Idle
  /\ \/ r.stage = "upstream"
     \/ r.stage = "toBrowser" /\ r.status = st /\ st # 200
  /\ Catch(HttpMessage(st))
  /\ loading' = FALSE
  /\ inflight' = inflight \ {r}
  /\ lastOutcome' = "failure"
  /\ FailureFrame

\* fetch rejects (the network, or the local API is not up)
FetchRejects(r) ==
  /\ Idle
  /\ r.stage \in {"upstream", "toServer"}
  /\ Catch(FetchFailedMessage)
  /\ loading' = FALSE
  /\ inflight' = inflight \ {r}
  /\ lastOutcome' = "failure"
  /\ FailureFrame

Browser ==
  \/ MountEffect
  \/ ClickRefresh
  \/ \E v \in LimitInputs : SetLimit(v)
  \/ Tick
  \/ \E r \in inflight : \E b \in Bodies : ReceiveOk(r, b)
  \/ \E r \in inflight : \E st \in ErrorStatuses \cup {500} : ReceiveNotOk(r, st)
  \/ \E r \in inflight : FetchRejects(r)

Server ==
  \/ \E r \in inflight : ServerHit(r)
  \/ \E r \in inflight : ServerMiss(r)
  \/ \E r \in inflight : \E b \in Bodies : ServerUpstreamOk(r, b)
  \/ \E r \in inflight : \E st \in ErrorStatuses : ServerUpstreamNotOk(r, st)
  \/ \E r \in inflight : ServerUpstreamThrows(r)

Next == Browser \/ Memo

Spec == Init /\ [][Next]_vars

NextProxy == Browser \/ Server \/ Memo

SpecProxy == InitProxy /\ [][NextProxy]_vars

(***************************************************************************)
(* Claims on the refresh lifecycle                                         *)
(***************************************************************************)
\* The step in which the call r of fetchData ends in its catch block
FailsNow(r) ==
  /\ r \in inflight
  /\ inflight' = inflight \ {r}
  /\ lastOutcome' = "failure"

\* The summary of a batch, as useMemo computes it
SummaryOf(hits) == StatsOf(FoldFrom(EmptyAcc, hits, 1, variant), variant)

\* C8, as the spec words it: when fetchData ends in failure, the stored
\* batch is exactly what it was before that refresh started.  A refresh that
\* overlaps the failing one and succeeds first refutes it.
C8_AsBeforeTheRefreshStarted ==
  [][\A r \in inflight : FailsNow(r) => rawHits' = r.startHits]_vars

\* C8: when fetchData ends in failure, the stored batch and the summary
\* derived from it are exactly what they were just before the failure was
\* handled (no recomputation is scheduled either), the summary still is
\* the summary of that batch, and the error is a non-null message.
C8_FailureKeepsSummary ==
  [][\A r \in inflight :
       FailsNow(r) =>
         /\ rawHits' = rawHits
         /\ stats' = stats
         /\ memoPc' = "done"
         /\ stats' = SummaryOf(rawHits')
         /\ error' # null
         /\ error' \in {HttpMessage(st) : st \in ErrorStatuses \cup {500}}
                      \cup {FetchFailedMessage}]_vars

\* A refresh has failed while a batch with counted votes was on display
C8_Witness ==
  /\ lastOutcome = "failure"
  /\ error # null
  /\ loading = FALSE
  /\ rawHits = BatchA
  /\ memoPc = "done"
  /\ stats.totalPower > 0

\* C9: whenever the aggregation has run to its end, the batch on display is
\* exactly the batch the last successful fetchData delivered, and the
\* summary is the aggregation of exactly that batch, whatever the order in
\* which overlapping calls were issued and answered; the summary is never
\* the aggregation of a part of a batch.
C9_WholesaleReplacement ==
  /\ memoPc = "done" =>
       /\ rawHits = lastDelivered
       /\ stats = SummaryOf(lastDelivered)
  /\ stats \in {SummaryOf(HitsOf(b)) : b \in Bodies}

\* The second call of the mount effect was answered after the first, and
\* its batch replaced the first one's while a third call was outstanding
C9_Witness ==
  /\ memoPc = "done"
  /\ lastOutcome = "success"
  /\ rawHits = BatchB
  /\ stats = SummaryOf(BatchB)
  /\ \E r \in inflight : r.id = 3 /\ r.startHits = BatchA

\* C10, as the spec words it: a refresh issued while another is outstanding
\* always adds an in-flight fetch of its own.  A refresh that postJsonCached
\* answers from _cache refutes it.
C10_EveryRefreshFetches ==
  [][(fetches' = fetches + 1 /\ inflight # {}) =>
       Cardinality(inflight') = Cardinality(inflight) + 1]_vars

\* C10: no request is coalesced with another.  Every call of fetchData that
\* postJsonCached does not answer from an entry of _cache younger than the
\* TTL sends a request of its own, whatever is outstanding and even with
\* the same URL and body; and every request that reaches the API server
\* while its cache holds no entry younger than the TTL gets an upstream
\* fetch of its own.
C10_NoCoalescing ==
  [][/\ (fetches' > fetches /\ ~BrowserHit(limit)) =>
          Cardinality(inflight') = Cardinality(inflight) + (fetches' - fetches)
     /\ \A r \in inflight :
          (/\ r.stage = "toServer"
           /\ ~CacheFresh(cache, ServerKey(r.limit), now, CACHE_TTL_MS)) =>
            \A q \in inflight' :
              q.id = r.id => q.stage \in {"toServer", "serverUpstream"}]_vars

\* A refresh clicked while a call of the mount effect was outstanding, and
\* the two, with the same URL and body, each in an upstream fetch of the
\* API server
C10_Witness ==
  \E r, q \in inflight :
    /\ r.id <= 2
    /\ q.id > 2
    /\ r.limit = q.limit
    /\ r.stage = "serverUpstream"
    /\ q.stage = "serverUpstream"

(***************************************************************************)
(* C11: the two caches                                                     *)
(***************************************************************************)
\* An entry under key, younger than the TTL at time t
YoungEntry(c, key, t) == key \in DOMAIN c /\ t - c[key].time < CACHE_TTL_MS

\* c with the entry under key replaced and every other entry as it was
StoredUnder(c, d, key, entry) ==
  /\ DOMAIN d = DOMAIN c \cup {key}
  /\ d[key] = entry
  /\ \A k \in DOMAIN c \ {key} : d[k] = c[k]

\* The sizes a query is built with
Sizes == LimitInputs \cup {DefaultLimit}

\* C11: a call of postJsonCached is answered with the stored data, and
\* without a request, exactly when _cache holds under the key of its URL
\* and body an entry younger than the TTL; otherwise the request goes out,
\* and when its response is ok the data is stored under that key alone,
\* stamped with the time of the call, and returned.  The same holds of the
\* API server and its cache.  Queries of different size have different keys.
C11_CacheContract ==
  [][/\ fetches' > fetches =>
          LET key == BrowserKey(limit)
          IN IF YoungEntry(_cache, key, now)
               THEN /\ inflight' = inflight
                    /\ rawHits' = HitsOf(_cache[key].data)
                    /\ UNCHANGED <<_cache, cache>>
               ELSE /\ Cardinality(inflight' \ inflight) = fetches' - fetches
                    /\ \A q \in inflight' \ inflight :
                         q.limit = limit /\ q.time = now
                    /\ UNCHANGED <<rawHits, _cache, cache>>
     /\ \A r \in inflight :
          (inflight' = inflight \ {r} /\ lastOutcome' = "success") =>
            /\ r.stage = "toBrowser" /\ r.status = 200
            /\ StoredUnder(_cache, _cache', BrowserKey(r.limit),
                           [time |-> r.time, data |-> r.body])
            /\ rawHits' = HitsOf(r.body)
     /\ \A r \in inflight : \A q \in inflight' \ inflight :
          (q.id = r.id /\ r.stage = "toServer") =>
            LET key == ServerKey(r.limit)
            IN /\ cache' = cache
               /\ IF YoungEntry(cache, key, now)
                    THEN /\ q.stage = "toBrowser"
                         /\ q.status = 200
                         /\ q.body = cache[key].body
                    ELSE q.stage = "serverUpstream" /\ q.srvTime = now
     /\ \A r \in inflight : \A q \in inflight' \ inflight :
          (q.id = r.id /\ r.stage = "serverUpstream" /\ q.status = 200) =>
            /\ q.stage = "toBrowser"
            /\ StoredUnder(cache, cache', ServerKey(r.limit),
                           [time |-> r.srvTime, body |-> q.body])
     /\ \A a, b \in Sizes :
          a # b => BrowserKey(a) # BrowserKey(b) /\ ServerKey(a) # ServerKey(b)
    ]_vars

\* Both caches hold an entry for the query that has reached the TTL, and a
\* refresh for it is in its upstream fetch
C11_Witness ==
  \E r \in inflight :
    /\ r.stage = "serverUpstream"
    /\ BrowserKey(r.limit) \in DOMAIN _cache
    /\ r.time - _cache[BrowserKey(r.limit)].time >= CACHE_TTL_MS
    /\ ServerKey(r.limit) \in DOMAIN cache
    /\ r.srvTime - cache[ServerKey(r.limit)].time >= CACHE_TTL_MS

(***************************************************************************)
(* C12: the limit input                                                    *)
(***************************************************************************)
\* Number(e.target.value) for what can be typed into the input: min and max
\* of an <input type="number"> mark a value as invalid and bound the
\* stepper, they do not stop a number from being typed, and the cleared
\* field gives Number('') = 0.
TypedLimits == {0, 99, 100, DefaultLimit, 50000, 50001}

Typing == \E v \in TypedLimits : SetLimit(v)

\* The component with every number typed into the limit input
InitLimit ==
  /\ variant \in Variants
  /\ route = "direct"
  /\ strictMode = FALSE
  /\ call = NoCall
  /\ rawHits = <<>>
  /\ memoPc = "done"
  /\ stats = StatsOf(EmptyAcc, variant)
  /\ InitComponent

NextLimit ==
  \/ MountEffect
  \/ ClickRefresh
  \/ Typing
  \/ \E r \in inflight : \E b \in Bodies : ReceiveOk(r, b)
  \/ \E r \in inflight : \E st \in ErrorStatuses : ReceiveNotOk(r, st)
  \/ \E r \in inflight : FetchRejects(r)
  \/ Memo

SpecLimit == InitLimit /\ [][NextLimit]_vars

\* C12: every query a refresh has sent asks for a number of events from 100
\* to 50000 (10000 when the input was never edited), sorted by ascending
\* timestamp, of the governance address and of the identifiers vote and
\* delegateVote.
C12_SizeWithinRange ==
  /\ \A r \in inflight :
       LET q == buildQuery(0, r.limit)
       IN /\ q.size \in 100..50000
          /\ q.from = 0
          /\ q.sort = <<[field |-> "timestamp", order |-> "asc"]>>
          /\ q.query.should = {[address |-> GOVERNANCE_SC],
                               [logAddress |-> GOVERNANCE_SC]}
          /\ q.query.identifier = {"vote", "delegateVote"}
  /\ \A r \in inflight : r.id = 1 => r.limit = DefaultLimit

(***************************************************************************)
(* The utilities called on their own: a call is drawn from the inputs      *)
(* below, and the one step of the specification computes its result.       *)
(***************************************************************************)
componentVars ==
  <<variant, route, strictMode, mounted, reactVars, memoVars, netVars,
    histVars>>

\* The component is not running
InitNoComponent ==
  /\ variant = "part_000"
  /\ route = "direct"
  /\ strictMode = FALSE
  /\ rawHits = <<>>
  /\ memoPc = "done"
  /\ stats = StatsOf(EmptyAcc, variant)
  /\ InitComponent

CallOf(fn, arg) == [fn |-> fn, arg |-> arg, done |-> FALSE]

Returned(fn) == call.fn = fn /\ call.done

Return(value) ==
  /\ ~call.done
  /\ call' = [fn |-> call.fn, arg |-> call.arg, done |-> TRUE, ret |-> value]
  /\ UNCHANGED componentVars

\* The hex of a sequence of character codes below 256, in lower-case digits
RECURSIVE HexOfCodes(_)
HexOfCodes(codes) ==
  IF Len(codes) = 0 THEN ""
  ELSE HexDigits[(codes[1] \div 16) + 1] \o HexDigits[(codes[1] % 16) + 1]
         \o HexOfCodes(Tail(codes))

\* A text in every letter case
Casings(text) ==
  {[i \in 1..Len(text) |->
      IF up[i] /\ text[i] >= 97 /\ text[i] <= 122
        THEN text[i] - 32 ELSE text[i]] :
     up \in [1..Len(text) -> BOOLEAN]}

Literals ==
  {Ascii_yes, Ascii_no, Ascii_abstain, Ascii_veto, Ascii_ncv,
   Ascii_veto_power}

\* topics[1] as decodeOption may get it: missing, empty, the six literals in
\* every letter case, other texts, upper-case hex digits, NUL padding, and
\* hex that is malformed
OptionInputs ==
  {Undefined, ""}
    \cup UNION {{HexOfCodes(c) : c \in Casings(l)} : l \in Literals}
    \cup {"6E6F", "4e4F", "6d61796265", "79657373", "7965", "00", "20",
          "79657300", "6e6f0000", "0079", "796573zz", "7965730", "79657",
          "zz", "0x796573", "7965 73", "6e6f0x", "7-6573", "6E6"}

CallDecodeOption ==
  /\ call.fn = "decodeOption"
  /\ Return(decodeOption(call.arg))

\* The strings hexToBigInt is explored on: every string of at most
\* MaxHexLen characters of HexAlphabet
MaxHexLen == 3
HexAlphabet == {"0", "1", "a", "F", "g", " "}

RECURSIVE StringsOver(_, _)
StringsOver(alphabet, n) ==
  IF n = 0 THEN {""}
  ELSE LET shorter == StringsOver(alphabet, n - 1)
       IN shorter \cup {x \o c : x \in shorter, c \in alphabet}

BigIntInputs == {Undefined} \cup StringsOver(HexAlphabet, MaxHexLen)

CallHexToBigInt ==
  /\ call.fn = "hexToBigInt"
  /\ Return(hexToBigInt(call.arg))

RECURSIVE Zeros(_)
Zeros(n) == IF n = 0 THEN "" ELSE "0" \o Zeros(n - 1)

\* topics[2] as hexToBech32Erd may get it: missing, zeros of 0 to 33 bytes
\* and of odd lengths, and 64 characters that start or end with a pair of
\* hex digits or with a pair that is not hex
AddressPairs == {"00", "ab", "AB", "f0", "zz", "-1", "0x", " 1", "g0", "0g"}

AddressInputs ==
  {Undefined}
    \cup {Zeros(n) : n \in {0, 1, 2, 62, 63, 64, 65, 66}}
    \cup {p \o Zeros(62) : p \in AddressPairs}
    \cup {Zeros(62) \o p : p \in AddressPairs}
    \cup {Zeros(61) \o "z", "z" \o Zeros(61), "z" \o Zeros(62)}

CallHexToBech32Erd ==
  /\ call.fn = "hexToBech32Erd"
  /\ Return(hexToBech32Erd(call.arg))

\* The accumulator maps topPerCategory is explored on: up to MaxExtra
\* voters more than the leaderboard keeps, their stakes and powers cycling
\* with different periods, so that keys repeat and arrive in many orders
MaxExtra == 2
VoterCounts == {0, 1, 2, TopN - 1} \cup {TopN + x : x \in 0..MaxExtra}
KeyPeriods == {1, 2, 7, 53}
KeyStrides == {1, 5}

VoterMap(n, stakePeriod, powerPeriod, stride) ==
  [i \in 1..n |->
     [key |-> HexOfCodes(<<i>>),
      value |-> [stake |-> (i * stride) % stakePeriod,
                 power |-> (i * 3) % powerPeriod,
                 count |-> 1 + (i % 2)]]]

VoterMaps ==
  {VoterMap(n, sp, pp, st) :
     n \in VoterCounts, sp \in KeyPeriods, pp \in KeyPeriods,
     st \in KeyStrides}

CallTopPerCategory ==
  /\ call.fn = "topPerCategory"
  /\ Return(topPerCategory(call.arg.map, call.arg.variant))

\* The sequences convertBits is explored on: every sequence of at most
\* MaxBytes values of ByteValues, among them values that are not bytes and
\* the NaN parseInt gives, and longer runs of bytes, up to 33, that take the
\* accumulator beyond 32 bits
MaxBytes == 3
ByteValues == {0, 1, 128, 171, 255, 256, 0 - 1, NaN}

RECURSIVE SequencesOver(_, _)
SequencesOver(values, n) ==
  IF n = 0 THEN {<<>>}
  ELSE LET shorter == SequencesOver(values, n - 1)
       IN shorter \cup {Append(x, c) : x \in shorter, c \in values}

ByteRuns ==
  {[i \in 1..n |-> (i * mult + 200) % 256] :
     n \in {4, 5, 8, 31, 32, 33}, mult \in {0, 37, 255}}

ByteInputs ==
  SequencesOver(ByteValues, MaxBytes) \cup ByteRuns
    \cup {HexBytes(id) : id \in {Zero32, VoterLower, "zz" \o Zeros(62)}}

CallConvertBits ==
  /\ call.fn = "convertBits"
  /\ Return(convertBits(call.arg, 8, 5, TRUE))

\* Identifiers of 32 bytes
Identifiers ==
  {Zero32, VoterLower,
   "0123456789abcdeffedcba98765432100f1e2d3c4b5a69788796a5b4c3d2e1f0"}

\* The prefixes and data bech32Encode is explored on: every sequence of at
\* most MaxSymbols symbols of DataSymbols, and the 52 symbols of identifiers
MaxSymbols == 3
DataSymbols == {0, 1, 16, 31}
Prefixes == {"", "a", "bt", "erd"}

SymbolInputs ==
  SequencesOver(DataSymbols, MaxSymbols)
    \cup {convertBits(HexBytes(id), 8, 5, TRUE) : id \in Identifiers}

CallBech32Encode ==
  /\ call.fn = "bech32Encode"
  /\ Return(bech32Encode(call.arg.hrp, call.arg.data))

UtilCalls ==
  {CallOf("decodeOption", h) : h \in OptionInputs}
    \cup {CallOf("bech32Encode", [hrp |-> p, data |-> d]) :
            p \in Prefixes, d \in SymbolInputs}
    \cup {CallOf("convertBits", d) : d \in ByteInputs}
    \cup {CallOf("hexToBigInt", h) : h \in BigIntInputs}
    \cup {CallOf("hexToBech32Erd", h) : h \in AddressInputs}
    \cup {CallOf("topPerCategory", [map |-> m, variant |-> v]) :
            m \in VoterMaps, v \in Variants}

InitUtil == call \in UtilCalls /\ InitNoComponent

NextUtil ==
  \/ CallDecodeOption
  \/ CallHexToBigInt
  \/ CallHexToBech32Erd
  \/ CallTopPerCategory
  \/ CallConvertBits
  \/ CallBech32Encode

SpecUtil == InitUtil /\ [][NextUtil]_vars

\* Hex as a strict reader takes it: an even number of hex digits
WellFormedHex(h) ==
  /\ h # Undefined
  /\ Len(h) % 2 = 0
  /\ \A i \in 1..Len(h) : IsHexDigit(CharAt(h, i))

StrictBytes(h) ==
  [i \in 1..(Len(h) \div 2) |->
     16 * HexVal(CharAt(h, 2 * i - 1)) + HexVal(CharAt(h, 2 * i))]

AsciiLower(codes) ==
  [i \in 1..Len(codes) |->
     IF codes[i] >= 65 /\ codes[i] <= 90 THEN codes[i] + 32 ELSE codes[i]]

RECURSIVE WithoutTrailingNuls(_)
WithoutTrailingNuls(codes) ==
  IF Len(codes) > 0 /\ codes[Len(codes)] = 0
    THEN WithoutTrailingNuls(SubSeq(codes, 1, Len(codes) - 1)) ELSE codes

\* The option a strict reader gives hex: that of the literal its bytes
\* spell in some letter case once the NUL bytes at the end are dropped,
\* unknown for everything else
StrictOption(h) ==
  IF ~WellFormedHex(h) THEN "unknown"
  ELSE LET text == AsciiLower(WithoutTrailingNuls(StrictBytes(h)))
       IN IF text = Ascii_yes THEN "yes"
          ELSE IF text = Ascii_no THEN "no"
          ELSE IF text = Ascii_abstain THEN "abstain"
          ELSE IF text \in {Ascii_veto, Ascii_ncv, Ascii_veto_power}
            THEN "veto"
          ELSE "unknown"

\* C13: decodeOption returns one of the five options for every input; the
\* hex of veto, ncv and veto_power in any letter case gives veto, that of
\* yes, no and abstain their own option, and every other input, malformed
\* hex included, gives unknown.
C13_LiteralsOrUnknown ==
  Returned("decodeOption") =>
    /\ call.ret \in OptionSet
    /\ call.ret = StrictOption(call.arg)

\* The digits of a string, without the white space that follows them
RECURSIVE DigitsOf(_)
DigitsOf(h) ==
  IF Len(h) > 0 /\ CharAt(h, Len(h)) = " "
    THEN DigitsOf(SubSeq(h, 1, Len(h) - 1)) ELSE h

\* The value of a string of hex digits, digit by digit from the right
PositionalValue(d) ==
  Sum([i \in 1..Len(d) |-> HexVal(CharAt(d, i)) * Power2(4 * (Len(d) - i))])

C15_AddressOnlyFor32Bytes ==
  Returned("hexToBech32Erd") =>
    (call.ret # Undefined =>
       WellFormedHex(call.arg) /\ Len(StrictBytes(call.arg)) = 32)

\* The row of a leaderboard for an entry of an accumulator map
RowOf(entry) ==
  [address |-> entry.key, stake |-> entry.value.stake,
   power |-> entry.value.power, count |-> entry.value.count]

\* a's sort key is strictly larger than b's: power in part_000; stake, then
\* power, in the .jsx variant
KeyLarger(a, b, v) ==
  IF v = "part_000" THEN a.power > b.power
  ELSE a.stake > b.stake \/ (a.stake = b.stake /\ a.power > b.power)

\* C16: topPerCategory returns at most 50 rows, and every voter of the map
\* when there are fewer than 50; every row is an entry of the map it was
\* given and no voter has two rows; the rows are in non-increasing order of
\* the key (power in part_000; stake, then power, in the .jsx variant); no
\* voter left out has a strictly larger key than a voter returned.
C16_TopFiftyByKey ==
  Returned("topPerCategory") =>
    LET m == call.arg.map
        v == call.arg.variant
        top == call.ret
    IN /\ Len(top) <= 50
       /\ Len(top) = Min(50, Len(m))
       /\ \A i \in 1..Len(top) : \E j \in 1..Len(m) : top[i] = RowOf(m[j])
       /\ \A i, j \in 1..Len(top) : i < j => top[i].address # top[j].address
       /\ \A i, j \in 1..Len(top) : i < j => ~KeyLarger(top[j], top[i], v)
       /\ \A j \in 1..Len(m) :
            (\A i \in 1..Len(top) : top[i].address # m[j].key) =>
              \A i \in 1..Len(top) : ~KeyLarger(RowOf(m[j]), top[i], v)

\* More voters than the leaderboard keeps, of different stakes and powers
C16_Witness ==
  /\ Returned("topPerCategory")
  /\ call.arg.variant = "jsx"
  /\ Len(call.arg.map) > TopN
  /\ Len(call.ret) = TopN
  /\ call.ret[1].stake > call.ret[TopN].stake
  /\ \E i \in 1..(TopN - 1) :
       /\ call.ret[i].stake = call.ret[i + 1].stake
       /\ call.ret[i].power > call.ret[i + 1].power

\* The accumulator map of the same events arriving in the opposite order:
\* a Map keeps its entries in the order of their first set()
OppositeArrival(m) == [i \in 1..Len(m) |-> m[Len(m) + 1 - i]]

\* C17: the leaderboard does not depend on the arrival order of the events:
\* the voters of a map, entered in the opposite order, give the same rows in
\* the same order, so that voters of equal key keep their relative order
\* and the same ones survive the cut to 50.
C17_TiesIndependentOfArrival ==
  Returned("topPerCategory") =>
    call.ret = topPerCategory(OppositeArrival(call.arg.map), call.arg.variant)

(***************************************************************************)
(* hexToBech32Erd on identifiers of 32 bytes and on each of them with one  *)
(* of its 256 bits flipped                                                 *)
(***************************************************************************)
IdBits == 0..255

\* The hex of an identifier with bit k flipped, bit 0 being the most
\* significant bit of the first byte
FlipBit(hex, k) ==
  LET n == (k \div 4) + 1
      nibble == BitXor(HexVal(CharAt(hex, n)), Power2(3 - (k % 4)))
  IN SubSeq(hex, 1, n - 1) \o HexDigits[nibble + 1]
       \o SubSeq(hex, n + 1, Len(hex))

Flips == [id \in Identifiers |-> [k \in IdBits |-> FlipBit(id, k)]]

InitFlip ==
  /\ call \in {CallOf("hexToBech32Erd", id) : id \in Identifiers}
               \cup {CallOf("hexToBech32Erd", Flips[id][k]) :
                       id \in Identifiers, k \in IdBits}
  /\ InitNoComponent

NextFlip == CallHexToBech32Erd

SpecFlip == InitFlip /\ [][NextFlip]_vars

\* The addresses of the identifiers as they are
OriginalAddress == [id \in Identifiers |-> hexToBech32Erd(id)]

ChecksumSuffix(address) == SubSeq(address, Len(address) - 5, Len(address))

\* C18: for an identifier of 32 bytes and each single bit of it, the address
\* of the identifier with that bit flipped ends in six characters that are
\* not the six the address of the identifier ends in.
C18_ChecksumSensitivity ==
  Returned("hexToBech32Erd") =>
    \A id \in Identifiers : \A k \in IdBits :
      call.arg = Flips[id][k] =>
        /\ call.ret # Undefined
        /\ OriginalAddress[id] # Undefined
        /\ ChecksumSuffix(call.ret) # ChecksumSuffix(OriginalAddress[id])

\* The last bit of the zero identifier is flipped
C18_Witness ==
  /\ Returned("hexToBech32Erd")
  /\ call.arg = Flips[Zero32][255]
  /\ OriginalAddress[Zero32] = ZeroAddress
  /\ ChecksumSuffix(call.ret) # "6gq4hu"

\* Bit p of a sequence of bytes read as one bit string, the most significant
\* bit of the first byte being bit 0; 0 past the end
BitAt(data, p) ==
  IF p >= 8 * Len(data) THEN 0
  ELSE (data[(p \div 8) + 1] \div Power2(7 - (p % 8))) % 2

\* Group j of five bits of that bit string
GroupAt(data, j) ==
  Sum([b \in 1..5 |-> BitAt(data, 5 * (j - 1) + b - 1) * Power2(5 - b)])

\* C19: convertBits(data, 8, 5, true) on n values that are all in 0..255
\* returns ceil(8n/5) symbols, each in 0..31, the groups of five bits of the
\* input bit string with zeros filling the last group, also when the
\* accumulator has gone beyond 32 bits (52 symbols for 32 bytes); on a
\* sequence with a value that is not in 0..255 it returns null.
C19_RegroupsBytesOrNull ==
  Returned("convertBits") =>
    LET data == call.arg
        n == Len(data)
    IN IF \A i \in 1..n : data[i] \in 0..255
         THEN /\ call.ret # Null
              /\ Len(call.ret) = (8 * n + 4) \div 5
              /\ n = 32 => Len(call.ret) = 52
              /\ \A j \in 1..Len(call.ret) :
                   call.ret[j] \in 0..31 /\ call.ret[j] = GroupAt(data, j)
         ELSE call.ret = Null

InAlphabet(c) == \E i \in 1..32 : CharAt(BECH32_ALPHABET, i) = c

SymbolOf(c) == (CHOOSE i \in 1..32 : CharAt(BECH32_ALPHABET, i) = c) - 1

\* The polymod register after each step over the values stays below 2^30
RegisterBelow2To30(values) ==
  \A k \in 0..Len(values) :
    LET chk == bech32Polymod(SubSeq(values, 1, k))
    IN chk >= 0 /\ chk < 1073741824

\* C20: bech32Encode(prefix, data) is prefix, "1" and len(data) + 6
\* characters of the alphabet: those of the data symbols, then those of the
\* six checksum symbols, each in 0..31 and most significant first, of
\* polymod(hrpExpand(prefix) ++ data ++ six zeros) xor 1; the register stays
\* below 2^30 at every step, and polymod(hrpExpand(prefix) ++ data ++
\* checksum) is 1.  An address hexToBech32Erd returns has 62 characters and
\* starts with erd1.
C20_EncodeShapeAndChecksum ==
  /\ Returned("bech32Encode") =>
       LET hrp == call.arg.hrp
           data == call.arg.data
           out == call.ret
           body == SubSeq(out, Len(hrp) + 2, Len(out))
           symbols == [i \in 1..Len(body) |-> SymbolOf(CharAt(body, i))]
           checksum == SubSeq(symbols, Len(data) + 1, Len(symbols))
           padded == bech32HrpExpand(hrp) \o data \o <<0, 0, 0, 0, 0, 0>>
       IN /\ Len(out) = Len(hrp) + 1 + Len(data) + 6
          /\ SubSeq(out, 1, Len(hrp) + 1) = hrp \o "1"
          /\ \A i \in 1..Len(body) : InAlphabet(CharAt(body, i))
          /\ SubSeq(symbols, 1, Len(data)) = data
          /\ Len(checksum) = 6
          /\ \A p \in 1..6 : checksum[p] \in 0..31
          /\ Sum([p \in 1..6 |-> checksum[p] * Power2(5 * (6 - p))])
               = BitXor(bech32Polymod(padded), 1)
          /\ RegisterBelow2To30(padded)
          /\ RegisterBelow2To30(bech32HrpExpand(hrp) \o data \o checksum)
          /\ bech32Polymod(bech32HrpExpand(hrp) \o data \o checksum) = 1
  /\ Returned("hexToBech32Erd") /\ call.ret # Undefined =>
       Len(call.ret) = 62 /\ SubSeq(call.ret, 1, 4) = "erd1"

\* The 52 symbols of the zero identifier under the prefix erd
C20_Witness ==
  /\ Returned("bech32Encode")
  /\ call.arg.hrp = "erd"
  /\ Len(call.arg.data) = 52
  /\ call.ret = ZeroAddress

(***************************************************************************)
(* C21: failures and the two caches                                        *)
(***************************************************************************)
\* C21: in postJsonCached's _cache and in the API server's cache, a call
\* upstream that fails (a status that is not ok, or a fetch that throws)
\* stores nothing: both caches stay as they were and the caller gets the
\* failure (fetchData an error, the browser a status that is not ok).  A
\* cache changes only when a call upstream ends ok, by the entry under the
\* key of that call, stamped with the time the call was issued and holding
\* its body; and what a cache serves is the body of an entry under the key
\* asked for whose stamp is less than the TTL before the time of serving.
C21_FailuresAreNotCached ==
  /\ [](/\ \A k \in DOMAIN _cache :
             _cache[k].data \in Bodies /\ _cache[k].time <= now
        /\ \A k \in DOMAIN cache :
             cache[k].body \in Bodies /\ cache[k].time <= now)
  /\ [][/\ \A r \in inflight :
             (inflight' = inflight \ {r} /\ lastOutcome' = "failure") =>
               /\ UNCHANGED <<_cache, cache>>
               /\ error' # null
        /\ \A r \in inflight : \A q \in inflight' \ inflight :
             (q.id = r.id /\ r.stage = "serverUpstream" /\ q.status # 200) =>
               /\ UNCHANGED <<_cache, cache>>
               /\ q.stage = "toBrowser"
               /\ q.status >= 400
        /\ _cache' # _cache =>
             \E r \in inflight :
               /\ inflight' = inflight \ {r}
               /\ lastOutcome' = "success"
               /\ (r.stage = "upstream"
                     \/ (r.stage = "toBrowser" /\ r.status = 200))
               /\ r.time <= now
               /\ \E b \in Bodies :
                    /\ r.stage = "toBrowser" => b = r.body
                    /\ StoredUnder(_cache, _cache', BrowserKey(r.limit),
                                   [time |-> r.time, data |-> b])
        /\ cache' # cache =>
             \E r \in inflight : \E q \in inflight' \ inflight :
               /\ q.id = r.id
               /\ r.stage = "serverUpstream"
               /\ q.status = 200
               /\ q.body \in Bodies
               /\ r.srvTime <= now
               /\ StoredUnder(cache, cache', ServerKey(r.limit),
                              [time |-> r.srvTime, body |-> q.body])
        /\ (fetches' > fetches /\ inflight' = inflight) =>
             LET key == BrowserKey(limit)
             IN /\ key \in DOMAIN _cache
                /\ now - _cache[key].time < 60000
                /\ rawHits' = HitsOf(_cache[key].data)
        /\ \A r \in inflight : \A q \in inflight' \ inflight :
             (q.id = r.id /\ r.stage = "toServer" /\ q.stage = "toBrowser") =>
               LET key == ServerKey(r.limit)
               IN /\ key \in DOMAIN cache
                  /\ now - cache[key].time < 60000
                  /\ q.status = 200
                  /\ q.body = cache[key].body
       ]_vars

\* Both caches hold the entry of an earlier refresh that has reached the
\* TTL, and the refresh that went upstream for it has failed
C21_Witness ==
  /\ lastOutcome = "failure"
  /\ error # null
  /\ inflight = {}
  /\ BrowserKey(limit) \in DOMAIN _cache
  /\ now - _cache[BrowserKey(limit)].time >= CACHE_TTL_MS
  /\ ServerKey(limit) \in DOMAIN cache
  /\ now - cache[ServerKey(limit)].time >= CACHE_TTL_MS

(***************************************************************************)
(* C22: the refresh flags                                                  *)
(***************************************************************************)
\* C22: a refresh that sends its request sets loading and clears error;
\* and whenever no call of fetchData awaits a response, loading is false and
\* error is set exactly when the call of fetchData that ended last ended in
\* failure.
C22_FlagsFollowLifecycle ==
  /\ [][inflight' \ inflight # {} => loading' = TRUE /\ error' = null]_vars
  /\ []((mounted /\ inflight = {}) =>
          /\ loading = FALSE
          /\ error # null <=> lastOutcome = "failure")
=============================================================================
